---- MODULE Spec2Model ----
(***************************************************************************)
(* Per-connection relay of main.py: gemini_session_handler, the two        *)
(* forwarding loops it runs (client_to_gemini_loop, gemini_to_client_loop) *)
(* and the turn-complete transcription path.                               *)
(*                                                                         *)
(* One connection is modelled.  The client channel, the remote session,    *)
(* the codec and the speech-to-text service are the environment: what they *)
(* deliver, and whether a call on them raises, is chosen with \E.          *)
(* A task is suspended at each `await`; the steps of a task between two    *)
(* awaits touch no state of the other task.  transcribe_audio is a plain   *)
(* (blocking) call, so it runs inside the step that reaches it.            *)
(***************************************************************************)
EXTENDS Naturals, Sequences, FiniteSets, TLC

(***************************************************************************)
(* Bounds of the model.                                                    *)
(***************************************************************************)
\* inbound client messages plus remote events of one connection
MaxInputs == 2
\* media chunks of one realtime_input message
MaxChunks == 2
\* parts of one model-turn
MaxParts == 2

(***************************************************************************)
(* Python values.                                                          *)
(***************************************************************************)
\* the outcome of a call that returns str | None: a string, None, or an
\* exception leaving the call; truthiness as in Python
None == [some |-> FALSE, s |-> "", exc |-> FALSE]
Some(str) == [some |-> TRUE, s |-> str, exc |-> FALSE]
Raised == [some |-> FALSE, s |-> "", exc |-> TRUE]
Truthy(o) == o.some /\ o.s # ""

\* the standard base64 alphabet, indexed from 1
B64Chars ==
  << "A","B","C","D","E","F","G","H","I","J","K","L","M","N","O","P",
     "Q","R","S","T","U","V","W","X","Y","Z","a","b","c","d","e","f",
     "g","h","i","j","k","l","m","n","o","p","q","r","s","t","u","v",
     "w","x","y","z","0","1","2","3","4","5","6","7","8","9","+","/" >>

B64Char(n) == B64Chars[n + 1]

\* base64.b64encode(bytes).decode("utf-8"): 3 bytes -> 4 characters, "=" padding
RECURSIVE b64encode(_)
b64encode(bytes) ==
  IF Len(bytes) = 0 THEN ""
  ELSE IF Len(bytes) = 1 THEN
    B64Char(bytes[1] \div 4) \o B64Char((bytes[1] % 4) * 16) \o "=="
  ELSE IF Len(bytes) = 2 THEN
    B64Char(bytes[1] \div 4)
      \o B64Char((bytes[1] % 4) * 16 + bytes[2] \div 16)
      \o B64Char((bytes[2] % 16) * 4) \o "="
  ELSE
    B64Char(bytes[1] \div 4)
      \o B64Char((bytes[1] % 4) * 16 + bytes[2] \div 16)
      \o B64Char((bytes[2] % 16) * 4 + bytes[3] \div 64)
      \o B64Char(bytes[3] % 64)
      \o b64encode(SubSeq(bytes, 4, Len(bytes)))

(***************************************************************************)
(* Inputs of the client -> remote direction.                               *)
(***************************************************************************)
\* a media chunk as json.loads delivers it.  dict = FALSE: the list element
\* is not a JSON object.  mime = "" : no "mime_type" key.  hasData = FALSE: no
\* "data" key.
Chunk(isDict, mime, hasData, data) ==
  [dict |-> isDict, mime |-> mime, hasData |-> hasData, data |-> data]

PcmChunk == Chunk(TRUE, "audio/pcm", TRUE, "AAA=")
JpegChunk == Chunk(TRUE, "image/jpeg", TRUE, "/9j/")
OtherChunk == Chunk(TRUE, "video/mp4", TRUE, "AAA=")
NoMimeChunk == Chunk(TRUE, "", TRUE, "/9j/")
NoDataChunk == Chunk(TRUE, "audio/pcm", FALSE, "")
NotADictChunk == Chunk(FALSE, "", FALSE, "")

Chunks ==
  {PcmChunk, JpegChunk, OtherChunk, NoMimeChunk, NoDataChunk, NotADictChunk}

SeqsUpTo(S, n) == UNION {[1..k -> S] : k \in 0..n}

\* a client message.  json: "invalid" (json.loads raises), "number" (a JSON
\* scalar), "list" (a JSON array without the string "realtime_input"),
\* "object".  ri, for an object: "absent" (no realtime_input key), "number"
\* (realtime_input is not an object), "nochunks" (an object without
\* media_chunks), "chunks" (media_chunks is the list `chunks`).
ClientMsg(json, ri, chunks) == [json |-> json, ri |-> ri, chunks |-> chunks]

ClientMsgs ==
  {ClientMsg("invalid", "absent", <<>>), ClientMsg("number", "absent", <<>>),
   ClientMsg("list", "absent", <<>>), ClientMsg("object", "absent", <<>>),
   ClientMsg("object", "number", <<>>), ClientMsg("object", "nochunks", <<>>)}
  \cup {ClientMsg("object", "chunks", cs) : cs \in SeqsUpTo(Chunks, MaxChunks)}

\* the mime types process_media_chunk forwards
RecognizedMimes == {"audio/pcm", "image/jpeg"}

(***************************************************************************)
(* Inputs of the remote -> client direction.                               *)
(***************************************************************************)
\* a part of a model-turn.  text = "" : no text attribute, or a falsy one.
\* inl: "absent" (no inline_data attribute), "null" (inline_data is None),
\* "blob" (inline_data.data is `data`, possibly empty).
Part(text, inl, data) == [text |-> text, inl |-> inl, data |-> data]

TextPart == Part("hello", "absent", <<>>)
AudioPart1 == Part("", "blob", <<1, 2>>)
AudioPart2 == Part("", "blob", <<255>>)
EmptyBlobPart == Part("", "blob", <<>>)
NoAttrPart == Part("", "absent", <<>>)
NullInlinePart == Part("", "null", <<>>)

Parts ==
  {TextPart, AudioPart1, AudioPart2, EmptyBlobPart, NoAttrPart, NullInlinePart}

\* a remote event.  sc: server_content is present.  mt: it has a model_turn,
\* whose parts are `parts`.  tc: turn_complete is set.
Event(sc, mt, parts, tc) == [sc |-> sc, mt |-> mt, parts |-> parts, tc |-> tc]

RemoteEvents ==
  {Event(FALSE, FALSE, <<>>, FALSE)}
  \cup {Event(TRUE, FALSE, <<>>, tc) : tc \in BOOLEAN}
  \cup {Event(TRUE, TRUE, ps, tc) :
          ps \in SeqsUpTo(Parts, MaxParts) \ {<<>>}, tc \in BOOLEAN}

(***************************************************************************)
(* Transcriber.                                                            *)
(***************************************************************************)
\* what the codec (pydub export) does with one buffer: it returns the
\* compressed bytes, or it raises
CodecOutcomes ==
  {[ok |-> TRUE, mp3 |-> <<255, 251>>], [ok |-> FALSE, mp3 |-> <<>>]}

\* what generate_content(...).text does: it returns a text, possibly empty,
\* or it raises
SttOutcomes ==
  {[ok |-> TRUE, text |-> "hi there"], [ok |-> TRUE, text |-> ""],
   [ok |-> FALSE, text |-> ""]}

\* lines 247-266: the compressed audio in base64, or None when the codec
\* raised (the exception is caught and logged)
convert_pcm_to_mp3(pcm_data, codec) ==
  IF codec.ok THEN Some(b64encode(codec.mp3)) ELSE None

\* fault: the exception of the speech-to-text call is not caught
transcribe_audio_Uncaught(audio_data, codec, stt) ==
  IF audio_data = <<>> THEN Some("No audio data received.")
  ELSE IF ~Truthy(convert_pcm_to_mp3(audio_data, codec))
    THEN Some("Audio conversion failed.")
  ELSE IF stt.ok THEN Some(stt.text)
  ELSE Raised

\* lines 212-244: the transcript, a fixed sentence for empty audio and for a
\* failed conversion, or None when the speech-to-text call raised (the
\* exception is caught and logged)
transcribe_audio(audio_data, codec, stt) ==
  IF audio_data = <<>> THEN Some("No audio data received.")
  ELSE IF ~Truthy(convert_pcm_to_mp3(audio_data, codec))
    THEN Some("Audio conversion failed.")
  ELSE IF stt.ok THEN Some(stt.text)
  ELSE None

(***************************************************************************)
(* Inputs of the handshake.                                                *)
(***************************************************************************)
\* a JSON object as a map from its keys; the empty object
EmptyMap == [k \in {} |-> ""]

\* lines 165-178: default_config
default_config ==
  [generation_config |->
     [response_modalities |-> <<"AUDIO", "TEXT">>, language |-> "en",
      temperature |-> "0.7", candidate_count |-> "1"],
   safety_settings |->
     [harassment |-> "block_none", hate_speech |-> "block_none",
      sexually_explicit |-> "block_none", dangerous_content |-> "block_none"]]

\* the setup objects a client sends: empty, one that gives a part of
\* generation_config, one with a key that is not among the defaults, and one
\* with both
Setups ==
  {EmptyMap,
   [generation_config |-> [temperature |-> "0.2"]],
   [tools |-> [google_search |-> "on"]],
   [generation_config |-> [temperature |-> "0.2"],
    tools |-> [google_search |-> "on"]]}

\* the first message of the connection.  json: "invalid", "list" (valid JSON
\* that is no object), "object".  setup, for an object: "absent", "dict"
\* (the object `overrides`), "number" (a setup that is no object).  chunks:
\* the media_chunks of its realtime_input, if it has one.
InitMsg(json, setup, overrides, chunks) ==
  [json |-> json, setup |-> setup, overrides |-> overrides, chunks |-> chunks]

InitMsgs ==
  {InitMsg("invalid", "absent", EmptyMap, <<>>),
   InitMsg("list", "absent", EmptyMap, <<>>),
   InitMsg("object", "absent", EmptyMap, <<>>),
   InitMsg("object", "number", EmptyMap, <<>>),
   InitMsg("object", "absent", EmptyMap, <<PcmChunk, JpegChunk>>)}
  \cup {InitMsg("object", "dict", o, <<>>) : o \in Setups}

NoInitMsg == InitMsg("", "absent", EmptyMap, <<>>)
NoConfig == [setup |-> EmptyMap]

\* fault: the value of d is kept for a key of both
DictUnionKeepsLeft(d, c) ==
  [k \in DOMAIN d \cup DOMAIN c |-> IF k \in DOMAIN d THEN d[k] ELSE c[k]]

\* line 182 and PEP 584: d | c has the keys of both, with the value of c
\* for a key of c
DictUnion(d, c) ==
  [k \in DOMAIN d \cup DOMAIN c |-> IF k \in DOMAIN c THEN c[k] ELSE d[k]]

\* line 181: config_data.get("setup", {})
client_setup(m) == IF m.setup = "dict" THEN m.overrides ELSE EmptyMap

\* line 182: the configuration passed to connect
MergedConfig(m) == [setup |-> DictUnion(default_config, client_setup(m))]

(***************************************************************************)
(* State.                                                                  *)
(***************************************************************************)
VARIABLES
  hpc,          \* gemini_session_handler: where it is suspended
  hcancel,      \* a CancelledError is propagating out of the handler
  hlog,         \* the last line the handler logged
  hInit,        \* config_data: the parsed initial message, while the handler
                \* is suspended in connect
  hConfig,      \* config: the argument of the connect call the handler is
                \* suspended in
  opens,        \* InferenceSessions opened (connect's __aenter__ returned)
  closes,       \* InferenceSessions closed (connect's __aexit__ ran)
  exitCancelled, \* history: the handler was cancelled while suspended in
                \* the session's __aexit__
  ws,           \* client channel: "open" or "closed"
  remote,       \* remote event stream: "open" or "closed"
  nIn,          \* client messages and remote events received in the loops
  wsRecvd,      \* messages taken off the client connection so far
  cpc,          \* receive_task (client_to_gemini_loop): where it is
  cCancelReq,   \* receive_task.cancel() was called and is not yet delivered
  cChunks,      \* media_chunks of the message being handled
  cCi,          \* index in cChunks of the chunk to process next
  cEnd,         \* how client_to_gemini_loop ended: "", "closed", or the
                \* exception that reached line 149
  remoteIn,     \* the session.send calls the InferenceSession accepted
  cMsgs,        \* history: each client message received by the loop, its
                \* number among the messages of the connection, and the
                \* sends made while it was handled
  gpc,          \* send_task (gemini_to_client_loop): where it is
  gCancelReq,   \* send_task.cancel() was called and is not yet delivered
  gEv,          \* the remote event being handled
  gEvNo,        \* its number: the value of nIn when it was received
  gPi,          \* index in gEv.parts of the part to process next
  gPending,     \* the message websocket.send is sending while gpc = "send"
  gEnd,         \* how gemini_to_client_loop ended: "", "closed", or the
                \* exception that reached line 132
  turnAudio,    \* GeminiSession.audio_data
  clientLog,    \* history: the messages send_to_client passed to
                \* websocket.send, in call order, each with the outcome of the
                \* call, the event and part it comes from and the payload
                \* the remote service put in that part
  turns         \* history: the turn-complete events handled, each with the
                \* buffer at that time and what transcribe_audio did

hvars ==
  <<hpc, hcancel, hlog, hInit, hConfig, opens, closes, exitCancelled>>
envvars == <<ws, remote, nIn, wsRecvd>>
cvars == <<cpc, cCancelReq, cChunks, cCi, cEnd, remoteIn, cMsgs>>
gvars ==
  <<gpc, gCancelReq, gEv, gEvNo, gPi, gPending, gEnd, turnAudio, clientLog,
    turns>>
vars == <<hvars, envvars, cvars, gvars>>

NoEvent == Event(FALSE, FALSE, <<>>, FALSE)
NoPart == Part("", "absent", <<>>)
NoPending == [k |-> "", v |-> "", raw |-> <<>>, src |-> ""]

\* a task that was created and has not finished: task and not task.done()
Running(pc) == pc \notin {"none", "done", "cancelled"}

Init ==
  /\ hpc = "recv_init" /\ hcancel = FALSE /\ hlog = ""
  /\ hInit = NoInitMsg /\ hConfig = NoConfig
  /\ opens = 0 /\ closes = 0 /\ exitCancelled = FALSE
  /\ ws = "open" /\ remote = "open" /\ nIn = 0 /\ wsRecvd = 0
  /\ cpc = "none" /\ cCancelReq = FALSE /\ cChunks = <<>> /\ cCi = 1
  /\ cEnd = "" /\ remoteIn = <<>> /\ cMsgs = <<>>
  /\ gpc = "none" /\ gCancelReq = FALSE /\ gEv = NoEvent /\ gEvNo = 0
  /\ gPi = 1 /\ gPending = NoPending /\ gEnd = ""
  /\ turnAudio = <<>> /\ clientLog = <<>> /\ turns = <<>>

(***************************************************************************)
(* gemini_session_handler.                                                 *)
(***************************************************************************)
\* fault: the first message is not validated
HandshakeAcceptsAnything(m) == "connect"

\* lines 164-182: what the handler does with the first message: "connect",
\* or the exception raised
Handshake(m) ==
  IF m.json = "invalid" THEN "JSONDecodeError"
  ELSE IF m.json = "list" THEN "AttributeError"
  ELSE IF m.setup = "number" THEN "TypeError"
  ELSE "connect"

\* lines 198-201: the line logged for an exception
SessionErrorLine(exc) ==
  IF exc = "JSONDecodeError" THEN "Invalid configuration received"
  ELSE "Session error: " \o exc

\* fault: the session is left open
SessionExitLeak(n) == n

\* line 186: leaving the `async with` block runs the session's __aexit__;
\* the count of closed sessions after it
SessionExit(n) == n + 1

\* fault: the finally clause does not await the tasks it cancels
CleanupNoAwait(sendPc, recvPc) == "returned"

\* lines 204-208: where the finally clause suspends.  It cancels and awaits
\* send_task if that is unfinished, then receive_task; with neither left it
\* runs to line 209.
Cleanup(sendPc, recvPc) ==
  IF Running(sendPc) THEN "await_send"
  ELSE IF Running(recvPc) THEN "await_recv"
  ELSE "returned"

\* fault: cancel() has no effect on a task
CancelledIgnored(pc) == pc

\* a task's state once a cancel() it was sent has been delivered
Cancelled(pc) == IF Running(pc) THEN "cancelled" ELSE pc

\* fault: recv() leaves the message on the connection
RecvPeeks(n) == n

\* line 162: recv() takes the next message off the connection; the count of
\* messages taken after it
RecvConsumes(n) == n + 1

\* lines 162-182: recv() returns the first message
HandshakeRecv(m) ==
  /\ hpc = "recv_init"
  /\ ws = "open"
  /\ wsRecvd' = RecvConsumes(wsRecvd)
  /\ IF Handshake(m) = "connect"
       THEN /\ hpc' = "connect" /\ hlog' = "Received initial message"
            /\ hInit' = m /\ hConfig' = MergedConfig(m)
       ELSE /\ hpc' = Cleanup(gpc, cpc)
            /\ hlog' = SessionErrorLine(Handshake(m))
            /\ UNCHANGED <<hInit, hConfig>>
  /\ UNCHANGED <<hcancel, opens, closes, exitCancelled, ws, remote, nIn,
                 cvars, gvars>>

\* line 162: recv() raises because the client has gone
HandshakeRecvFails ==
  /\ hpc = "recv_init"
  /\ ws' = "closed"
  /\ hpc' = Cleanup(gpc, cpc)
  /\ hlog' = SessionErrorLine("ConnectionClosed")
  /\ UNCHANGED <<hcancel, hInit, hConfig, opens, closes, exitCancelled,
                 remote, nIn, wsRecvd, cvars, gvars>>

\* lines 186-196: the session is opened, both tasks are created and the
\* handler suspends in gather
ConnectOk ==
  /\ hpc = "connect"
  /\ opens' = opens + 1
  /\ hpc' = "gather"
  /\ hlog' = "Connected to Gemini API"
  /\ hInit' = NoInitMsg /\ hConfig' = NoConfig
  /\ gpc' = "recv"
  /\ cpc' = "recv"
  /\ UNCHANGED <<hcancel, closes, exitCancelled, envvars, cCancelReq,
                 cChunks, cCi, cEnd, remoteIn, cMsgs, gCancelReq, gEv, gEvNo,
                 gPi, gPending, gEnd, turnAudio, clientLog, turns>>

\* line 186: connect raises; no session exists
ConnectFails ==
  /\ hpc = "connect"
  /\ hpc' = Cleanup(gpc, cpc)
  /\ hlog' = SessionErrorLine("ConnectError")
  /\ hInit' = NoInitMsg /\ hConfig' = NoConfig
  /\ UNCHANGED <<hcancel, opens, closes, exitCancelled, envvars, cvars,
                 gvars>>

\* line 196: gather returns when both tasks are done; the handler leaves the
\* `async with` block and is suspended in the session's __aexit__
GatherReturns ==
  /\ hpc = "gather"
  /\ ~Running(gpc) /\ ~Running(cpc)
  /\ hpc' = "aexit"
  /\ UNCHANGED <<hcancel, hlog, hInit, hConfig, opens, closes, exitCancelled,
                 envvars, cvars, gvars>>

\* the handler's own task is cancelled (server shutdown) before the loops
\* exist: CancelledError passes the except clauses, the finally clause runs
ExternalCancel ==
  /\ hpc \in {"recv_init", "connect"}
  /\ hpc' = Cleanup(gpc, cpc)
  /\ hcancel' = TRUE
  /\ hInit' = NoInitMsg /\ hConfig' = NoConfig
  /\ UNCHANGED <<hlog, opens, closes, exitCancelled, envvars, cvars, gvars>>

\* line 196: the handler's own task is cancelled while it is suspended in
\* gather.  gather cancels both children; it raises CancelledError into the
\* handler as soon as one child has ended cancelled (or at once when none was
\* running).  `late` is the child, if any, that has not ended by then: its
\* cancellation stays requested and its frame is intact.  A child that ends
\* cancelled loses its frame (lines 114-136, 139-152).  The CancelledError
\* leaves the `async with` block: the handler is suspended in the session's
\* __aexit__, the session not yet closed.
GatherCancelled(late) ==
  /\ hpc = "gather"
  /\ late \in {"none", "send", "recv"}
  /\ late = "send" => Running(gpc) /\ Running(cpc)
  /\ late = "recv" => Running(gpc) /\ Running(cpc)
  /\ gpc' = IF late = "send" THEN gpc ELSE Cancelled(gpc)
  /\ gEv' = IF late = "send" THEN gEv ELSE NoEvent
  /\ gPi' = IF late = "send" THEN gPi ELSE 1
  /\ gPending' = IF late = "send" THEN gPending ELSE NoPending
  /\ cpc' = IF late = "recv" THEN cpc ELSE Cancelled(cpc)
  /\ cChunks' = IF late = "recv" THEN cChunks ELSE <<>>
  /\ cCi' = IF late = "recv" THEN cCi ELSE 1
  /\ gCancelReq' = (late = "send")
  /\ cCancelReq' = (late = "recv")
  /\ hcancel' = TRUE
  /\ hpc' = "aexit"
  /\ UNCHANGED <<hlog, hInit, hConfig, opens, closes, exitCancelled, envvars,
                 cEnd, remoteIn, cMsgs, gEvNo, gEnd, turnAudio, clientLog,
                 turns>>

\* line 186, lines 202-208: the session's __aexit__ returns, which closes
\* the session; the finally clause runs up to its first await: it cancels
\* the first unfinished task and awaits it
LeaveSession ==
  /\ hpc = "aexit"
  /\ closes' = SessionExit(closes)
  /\ hpc' = Cleanup(gpc, cpc)
  /\ gCancelReq' = Running(gpc)
  /\ cCancelReq' = IF Running(gpc) THEN cCancelReq ELSE Running(cpc)
  /\ UNCHANGED <<hcancel, hlog, hInit, hConfig, opens, exitCancelled,
                 envvars, cpc, cChunks, cCi, cEnd, remoteIn, cMsgs, gpc, gEv,
                 gEvNo, gPi, gPending, gEnd, turnAudio, clientLog, turns>>

\* line 186, lines 198-208: the handler's own task is cancelled while it is
\* suspended in the session's __aexit__ (after gather returned, or after a
\* cancellation in gather).  CancelledError is raised out of __aexit__ and
\* passes the except clauses; the finally clause runs up to its first await.
\* Whether a cancelled exit closes the session is decided by the session
\* library: `closed`.
LeaveSessionCancelled(closed) ==
  /\ hpc = "aexit"
  /\ closed \in BOOLEAN
  /\ closes' = IF closed THEN SessionExit(closes) ELSE closes
  /\ hcancel' = TRUE
  /\ exitCancelled' = TRUE
  /\ hpc' = Cleanup(gpc, cpc)
  /\ gCancelReq' = Running(gpc)
  /\ cCancelReq' = IF Running(gpc) THEN cCancelReq ELSE Running(cpc)
  /\ UNCHANGED <<hlog, hInit, hConfig, opens, envvars, cpc, cChunks, cCi,
                 cEnd, remoteIn, cMsgs, gpc, gEv, gEvNo, gPi, gPending, gEnd,
                 turnAudio, clientLog, turns>>

\* line 208: `await send_task` returns once send_task has ended; the loop
\* goes on to receive_task, lines 204-206
AwaitSend ==
  /\ hpc = "await_send"
  /\ ~Running(gpc)
  /\ hpc' = Cleanup(gpc, cpc)
  /\ cCancelReq' = Running(cpc)
  /\ UNCHANGED <<hcancel, hlog, hInit, hConfig, opens, closes, exitCancelled,
                 envvars, cpc, cChunks, cCi, cEnd, remoteIn, cMsgs, gvars>>

\* line 208: `await receive_task` returns once receive_task has ended;
\* line 209
AwaitRecv ==
  /\ hpc = "await_recv"
  /\ ~Running(cpc)
  /\ hpc' = "returned"
  /\ UNCHANGED <<hcancel, hlog, hInit, hConfig, opens, closes, exitCancelled,
                 envvars, cvars, gvars>>

(***************************************************************************)
(* client_to_gemini_loop.                                                  *)
(***************************************************************************)
\* lines 65-68: what the try body of handle_client_message does with a
\* message before it reaches a chunk: the exception raised, "drop" (no
\* realtime_input: nothing to do) or "iterate" (the chunks are processed)
handle_client_message(m) ==
  IF m.json = "invalid" THEN "JSONDecodeError"
  ELSE IF m.json = "number" THEN "TypeError"
  ELSE IF m.json = "list" \/ m.ri = "absent" THEN "drop"
  ELSE IF m.ri = "number" THEN "TypeError"
  ELSE IF m.ri = "nochunks" THEN "KeyError"
  ELSE "iterate"

\* fault: only the JSON and missing-key handlers, without line 73
ClientMessageCatchesNarrow(exc) == exc \in {"JSONDecodeError", "KeyError"}

\* lines 69-74: the exceptions handle_client_message catches and logs
ClientMessageCatches(exc) ==
  exc \in {"JSONDecodeError", "KeyError", "TypeError", "AttributeError",
           "SendError"}

\* fault: no filter on the mime type
process_media_chunk_AnyMime(chunk) ==
  IF ~chunk.dict THEN "AttributeError"
  ELSE IF ~chunk.hasData THEN "KeyError"
  ELSE "send"

\* lines 52-59: what process_media_chunk does with a chunk: the exception
\* raised, "skip" (mime type not forwarded) or "send"
process_media_chunk(chunk) ==
  IF ~chunk.dict THEN "AttributeError"
  ELSE IF chunk.mime \notin RecognizedMimes THEN "skip"
  ELSE IF ~chunk.hasData THEN "KeyError"
  ELSE "send"

\* lines 54-59: the argument of session.send
SendInput(chunk) == [mime_type |-> chunk.mime, data |-> chunk.data]

\* session.send succeeds while the remote stream is up, websocket.send while
\* the client is connected; otherwise they raise
SessionSendOk == remote = "open"
WebsocketSendOk == ws = "open"

\* lines 149-152: an exception that leaves handle_client_message ends the
\* loop
ClientLoopRaises(exc) ==
  /\ cpc' = "done" /\ cEnd' = exc
  /\ cChunks' = <<>> /\ cCi' = 1

\* line 142: the loop waits for the next message
ClientLoopNext ==
  /\ cpc' = "recv" /\ cEnd' = cEnd
  /\ cChunks' = <<>> /\ cCi' = 1

\* lines 142-146, 65-68: a message arrives and is handled up to the first
\* chunk
ClientRecv(m) ==
  /\ cpc = "recv" /\ ~cCancelReq
  /\ ws = "open"
  /\ nIn < MaxInputs
  /\ nIn' = nIn + 1
  /\ wsRecvd' = wsRecvd + 1
  /\ cMsgs' = Append(cMsgs, [msg |-> m, no |-> wsRecvd + 1, sent |-> <<>>])
  /\ LET r == handle_client_message(m) IN
       IF r = "iterate" /\ m.chunks # <<>>
         THEN cpc' = "chunk" /\ cChunks' = m.chunks /\ cCi' = 1 /\ cEnd' = cEnd
       ELSE IF r \in {"iterate", "drop"} \/ ClientMessageCatches(r)
         THEN ClientLoopNext
       ELSE ClientLoopRaises(r)
  /\ UNCHANGED <<hvars, ws, remote, cCancelReq, remoteIn, gvars>>

\* lines 67-68, 52-59: the next chunk is processed; session.send, if called,
\* returns or raises
ClientChunk ==
  /\ cpc = "chunk" /\ ~cCancelReq
  /\ LET chunk == cChunks[cCi]
         p == process_media_chunk(chunk)
         r == IF p = "send" /\ ~SessionSendOk THEN "SendError" ELSE p
     IN
       /\ IF r = "send"
            THEN /\ remoteIn' = Append(remoteIn, SendInput(chunk))
                 /\ cMsgs' = [cMsgs EXCEPT ![Len(cMsgs)].sent =
                                Append(@, SendInput(chunk))]
            ELSE UNCHANGED <<remoteIn, cMsgs>>
       /\ IF r \in {"send", "skip"}
            THEN IF cCi < Len(cChunks)
                   THEN /\ cCi' = cCi + 1
                        /\ UNCHANGED <<cpc, cChunks, cEnd>>
                   ELSE ClientLoopNext
          ELSE IF ClientMessageCatches(r) THEN ClientLoopNext
          ELSE ClientLoopRaises(r)
  /\ UNCHANGED <<hvars, envvars, cCancelReq, gvars>>

\* lines 142, 147-148, 151: the client closes the connection; the iteration
\* ends and the loop returns
ClientCloses ==
  /\ cpc = "recv" /\ ~cCancelReq
  /\ ws' = "closed"
  /\ cpc' = "done" /\ cEnd' = "closed"
  /\ UNCHANGED <<hvars, remote, nIn, wsRecvd, cCancelReq, cChunks, cCi,
                 remoteIn, cMsgs, gvars>>

\* the cancel() of lines 206-208 or of gather is delivered at the await the
\* task is suspended in; CancelledError is not an Exception and ends the task
ClientTaskCancelled ==
  /\ cCancelReq /\ Running(cpc)
  /\ cpc' = "cancelled"
  /\ cCancelReq' = FALSE
  /\ cChunks' = <<>> /\ cCi' = 1
  /\ UNCHANGED <<hvars, envvars, cEnd, remoteIn, cMsgs, gvars>>

(***************************************************************************)
(* gemini_to_client_loop.                                                  *)
(***************************************************************************)
\* fault: the parts are taken last to first
PartAtReversed(ev, i) == ev.parts[Len(ev.parts) + 1 - i]

\* line 107: the parts of a model-turn are taken in list order
PartAt(ev, i) == ev.parts[i]

\* lines 108-111: what handle_model_turn does with a part: "text", "audio",
\* "skip" (neither branch), or AttributeError (inline_data is None)
handle_model_turn(part) ==
  IF part.text # "" THEN "text"
  ELSE IF part.inl = "absent" THEN "skip"
  ELSE IF part.inl = "null" THEN "AttributeError"
  ELSE IF part.data = <<>> THEN "skip"
  ELSE "audio"

\* fault: a text part extends the buffer
handle_text_part_Extends(text) ==
  [k |-> "text", v |-> text, raw |-> <<0>>, src |-> "part"]

\* line 87: the message of a text part; it adds nothing to the buffer
handle_text_part(text) ==
  [k |-> "text", v |-> text, raw |-> <<>>, src |-> "part"]

\* fault: the buffer is not extended
handle_audio_part_NoExtend(audio_data) ==
  [k |-> "audio", v |-> b64encode(audio_data), raw |-> <<>>, src |-> "part"]

\* lines 92-94: the message of an audio part and the bytes that extend
\* audio_data after the send
handle_audio_part(audio_data) ==
  [k |-> "audio", v |-> b64encode(audio_data), raw |-> audio_data,
   src |-> "part"]

\* fault: no test of the buffer
handle_turn_complete_Always(audio_data) == TRUE

\* line 99: the buffer is transcribed only when it is not empty
handle_turn_complete(audio_data) == audio_data # <<>>

\* line 101: the message of a transcript
TranscriptMessage(text) ==
  [k |-> "text", v |-> text, raw |-> <<>>, src |-> "transcript"]

\* fault: what websocket.send raises leaves send_to_client
send_to_client_Reraises(sendOk) == IF sendOk THEN "returns" ELSE "raises"

\* lines 79-82: send_to_client catches what websocket.send raises and
\* returns
send_to_client(sendOk) == "returns"

\* line 116: the loop waits for the next event
AtRecv == gpc' = "recv" /\ gEv' = NoEvent /\ gPi' = 1

\* lines 132-136: an exception in the loop body ends the loop
GeminiLoopRaises(exc) ==
  /\ gpc' = "done" /\ gEnd' = exc
  /\ gEv' = NoEvent /\ gPi' = 1

\* fault: the turn-complete flag is looked at before the remaining parts
AfterPartTurnFirst(ev, pi) ==
  IF ev.tc THEN gpc' = "turn" /\ gEv' = ev /\ gPi' = pi + 1
  ELSE IF pi < Len(ev.parts) THEN gpc' = "part" /\ gEv' = ev /\ gPi' = pi + 1
  ELSE AtRecv

\* lines 107, 126-127: after part pi of event ev: the next part, then the
\* turn-complete flag, then the next event
AfterPart(ev, pi) ==
  IF pi < Len(ev.parts) THEN gpc' = "part" /\ gEv' = ev /\ gPi' = pi + 1
  ELSE IF ev.tc THEN gpc' = "turn" /\ gEv' = ev /\ gPi' = pi + 1
  ELSE AtRecv

\* lines 116-127: an event arrives
GeminiRecv(ev) ==
  /\ gpc = "recv" /\ ~gCancelReq
  /\ remote = "open"
  /\ nIn < MaxInputs
  /\ nIn' = nIn + 1
  /\ gEvNo' = nIn + 1
  /\ IF ~ev.sc THEN AtRecv
     ELSE IF ev.mt THEN gpc' = "part" /\ gEv' = ev /\ gPi' = 1
     ELSE IF ev.tc THEN gpc' = "turn" /\ gEv' = ev /\ gPi' = 1
     ELSE AtRecv
  /\ UNCHANGED <<hvars, ws, remote, wsRecvd, cvars, gCancelReq, gPending,
                 gEnd, turnAudio, clientLog, turns>>

\* lines 107-111, 87, 92-93: the next part is handled up to the await of
\* websocket.send
GeminiPart ==
  /\ gpc = "part" /\ ~gCancelReq
  /\ LET part == PartAt(gEv, gPi)
         r == handle_model_turn(part)
     IN
       IF r = "text"
         THEN /\ gPending' = handle_text_part(part.text)
              /\ gpc' = "send"
              /\ UNCHANGED <<gEv, gPi, gEnd>>
       ELSE IF r = "audio"
         THEN /\ gPending' = handle_audio_part(part.data)
              /\ gpc' = "send"
              /\ UNCHANGED <<gEv, gPi, gEnd>>
       ELSE IF r = "skip"
         THEN AfterPart(gEv, gPi) /\ UNCHANGED <<gPending, gEnd>>
       ELSE GeminiLoopRaises(r) /\ UNCHANGED gPending
  /\ UNCHANGED <<hvars, envvars, cvars, gCancelReq, gEvNo, turnAudio,
                 clientLog, turns>>

\* lines 79-82, 94, 102: websocket.send returns or raises; send_to_client
\* returns; an audio part extends the buffer, a transcript empties it
GeminiSendReturns ==
  /\ gpc = "send" /\ ~gCancelReq
  /\ clientLog' = Append(clientLog,
       [k |-> gPending.k, v |-> gPending.v, ok |-> WebsocketSendOk,
        src |-> gPending.src, ev |-> gEvNo, pi |-> gPi,
        raw |-> IF gPending.src = "part" THEN gEv.parts[gPi].data ELSE <<>>])
  /\ gPending' = NoPending
  /\ IF send_to_client(WebsocketSendOk) # "returns"
       THEN GeminiLoopRaises("SendError") /\ UNCHANGED turnAudio
     ELSE IF gPending.src = "transcript"
       THEN turnAudio' = <<>> /\ AtRecv /\ UNCHANGED gEnd
     ELSE /\ turnAudio' = turnAudio \o gPending.raw
          /\ AfterPart(gEv, gPi)
          /\ UNCHANGED gEnd
  /\ UNCHANGED <<hvars, envvars, cvars, gCancelReq, gEvNo, turns>>

\* lines 99-102: the turn-complete flag is handled; transcribe_audio is a
\* blocking call whose codec and speech-to-text steps succeed or fail
GeminiTurnComplete(codec, stt) ==
  /\ gpc = "turn" /\ ~gCancelReq
  /\ IF handle_turn_complete(turnAudio)
       THEN LET text == transcribe_audio(turnAudio, codec, stt) IN
         /\ turns' = Append(turns,
              [ev |-> gEvNo, audio |-> turnAudio, called |-> TRUE,
               codecOk |-> codec.ok, text |-> text])
         /\ IF text.exc
              THEN /\ GeminiLoopRaises("TranscribeError")
                   /\ UNCHANGED <<gPending, turnAudio>>
            ELSE IF Truthy(text)
              THEN /\ gPending' = TranscriptMessage(text.s)
                   /\ gpc' = "send"
                   /\ UNCHANGED <<gEv, gPi, gEnd, turnAudio>>
            ELSE turnAudio' = <<>> /\ AtRecv /\ UNCHANGED <<gPending, gEnd>>
       ELSE /\ turns' = Append(turns,
                 [ev |-> gEvNo, audio |-> turnAudio, called |-> FALSE,
                  codecOk |-> TRUE, text |-> None])
            /\ AtRecv
            /\ UNCHANGED <<gPending, gEnd, turnAudio>>
  /\ UNCHANGED <<hvars, envvars, cvars, gCancelReq, gEvNo, clientLog>>

\* lines 116, 130-136: the remote stream ends or breaks; the loop returns
GeminiStreamEnds ==
  /\ gpc = "recv" /\ ~gCancelReq
  /\ remote' = "closed"
  /\ gpc' = "done" /\ gEnd' = "closed"
  /\ UNCHANGED <<hvars, ws, nIn, wsRecvd, cvars, gCancelReq, gEv, gEvNo, gPi,
                 gPending, turnAudio, clientLog, turns>>

\* the cancel() of lines 206-208 or of gather is delivered at the await the
\* task is suspended in; CancelledError is not an Exception and ends the task
GeminiTaskCancelled ==
  /\ gCancelReq /\ Running(gpc)
  /\ gpc' = "cancelled"
  /\ gCancelReq' = FALSE
  /\ gEv' = NoEvent /\ gPi' = 1 /\ gPending' = NoPending
  /\ UNCHANGED <<hvars, envvars, cvars, gEvNo, gEnd, turnAudio, clientLog,
                 turns>>

(***************************************************************************)
(* The program.                                                            *)
(***************************************************************************)
HandlerStep ==
  \/ \E m \in InitMsgs : HandshakeRecv(m)
  \/ HandshakeRecvFails
  \/ ConnectOk
  \/ ConnectFails
  \/ GatherReturns
  \/ LeaveSession
  \/ \E late \in {"none", "send", "recv"} : GatherCancelled(late)
  \/ AwaitSend
  \/ AwaitRecv

ClientLoopStep ==
  \/ \E m \in ClientMsgs : ClientRecv(m)
  \/ ClientChunk
  \/ ClientCloses
  \/ ClientTaskCancelled

GeminiLoopStep ==
  \/ \E ev \in RemoteEvents : GeminiRecv(ev)
  \/ GeminiPart
  \/ GeminiSendReturns
  \/ \E codec \in CodecOutcomes, stt \in SttOutcomes :
       GeminiTurnComplete(codec, stt)
  \/ GeminiStreamEnds
  \/ GeminiTaskCancelled

Next ==
  \/ HandlerStep
  \/ ClientLoopStep
  \/ GeminiLoopStep
  \/ ExternalCancel
  \/ \E closed \in BOOLEAN : LeaveSessionCancelled(closed)

Spec == Init /\ [][Next]_vars

\* The steps the program takes by itself are taken eventually: the event loop
\* resumes a task whose await has completed, and delivers a cancellation.
\* Nothing is assumed of the client and of the remote service: a message, an
\* event, a close, the reply to connect and a server shutdown may never come.
Fairness ==
  /\ WF_vars(GatherReturns)
  /\ WF_vars(LeaveSession)
  /\ WF_vars(AwaitSend)
  /\ WF_vars(AwaitRecv)
  /\ WF_vars(ClientChunk)
  /\ WF_vars(ClientTaskCancelled)
  /\ WF_vars(GeminiPart)
  /\ WF_vars(GeminiSendReturns)
  /\ WF_vars(\E codec \in CodecOutcomes, stt \in SttOutcomes :
               GeminiTurnComplete(codec, stt))
  /\ WF_vars(GeminiTaskCancelled)

FairSpec == Init /\ [][Next]_vars /\ Fairness

TypeOK ==
  /\ hpc \in {"recv_init", "connect", "gather", "aexit", "await_send",
              "await_recv", "returned"}
  /\ hcancel \in BOOLEAN
  /\ opens \in 0..1 /\ closes \in 0..1 /\ exitCancelled \in BOOLEAN
  /\ ws \in {"open", "closed"} /\ remote \in {"open", "closed"}
  /\ nIn \in 0..MaxInputs
  /\ cpc \in {"none", "recv", "chunk", "done", "cancelled"}
  /\ gpc \in {"none", "recv", "part", "send", "turn", "done", "cancelled"}
  /\ cCancelReq \in BOOLEAN /\ gCancelReq \in BOOLEAN
  /\ cCi \in 1..MaxChunks /\ gPi \in 1..(MaxParts + 1)
  /\ Len(cMsgs) <= MaxInputs /\ Len(turns) <= MaxInputs

(***************************************************************************)
(* Properties.                                                             *)
(***************************************************************************)
\* C1 (as stated): a handler that has returned, without having been
\* cancelled, opened one session and closed it once.
C1_ExactlyOneSession ==
  (hpc = "returned" /\ ~hcancel) => opens = 1 /\ closes = 1

\* C1 (amended): at most one session is opened per connection, exactly when
\* the handshake succeeds and the two loops are started; an opened session is
\* open during the join and until its __aexit__ ends, and is never closed
\* twice.  When its __aexit__ returns it is closed once, whichever loop
\* ended first and also after a cancellation in the join, and is not left
\* open when the handler returns.  Only when the handler is cancelled while
\* __aexit__ is in progress may the session be left open: closing it is then
\* up to the session library.
C1_SessionOpenedAndClosedOnce ==
  /\ opens <= 1 /\ closes <= opens
  /\ (opens = 1) <=> (cpc # "none" /\ gpc # "none")
  /\ hpc \in {"recv_init", "connect"} => opens = 0
  /\ hpc \in {"gather", "aexit"} => opens = 1 /\ closes = 0
  /\ hpc \in {"await_send", "await_recv", "returned"} =>
       closes = opens \/ (exitCancelled /\ opens = 1 /\ closes = 0)
  /\ exitCancelled => hcancel /\ opens = 1 /\ hpc # "aexit"

\* the remote -> client loop failed first, the client closed later, the
\* handler returned
C1_Witness ==
  /\ hpc = "returned" /\ opens = 1 /\ closes = 1
  /\ gEnd = "AttributeError" /\ cEnd = "closed" /\ cMsgs # <<>>

\* C2 (as stated): a turn-complete whose conversion to MP3 fails sends no
\* {"text": ...} message for that turn, and leaves the buffer empty.
C2_NoTextOnConversionFailure ==
  \A j \in DOMAIN turns :
    turns[j].called /\ ~turns[j].codecOk =>
      /\ ~(gpc = "send" /\ gPending.src = "transcript" /\ gEvNo = turns[j].ev)
      /\ \A i \in DOMAIN clientLog :
           ~(clientLog[i].k = "text" /\ clientLog[i].src = "transcript"
             /\ clientLog[i].ev = turns[j].ev)
      /\ (gpc = "recv" /\ gEvNo = turns[j].ev) => turnAudio = <<>>

\* C3 (as stated): once client_to_gemini_loop has ended, the handler
\* eventually leaves the join and tears down, whatever the remote stream does.
C3_JoinCompletes == (cpc = "done") ~> (hpc # "gather")

\* what the claims say of a client message
NotJsonOrNoInput(m) == m.json \in {"invalid", "number", "list"} \/ m.ri = "absent"
Recognized(chunk) ==
  chunk.dict /\ chunk.mime \in RecognizedMimes /\ chunk.hasData
Malformed(chunk) ==
  ~chunk.dict \/ (chunk.mime \in RecognizedMimes /\ ~chunk.hasData)
ValidInput(m) ==
  /\ m.json = "object" /\ m.ri = "chunks"
  /\ \A i \in DOMAIN m.chunks : ~Malformed(m.chunks[i])

\* the recognized chunks of a list, as {mime_type, data}, in order
RECURSIVE Forwarded(_)
Forwarded(chunks) ==
  IF chunks = <<>> THEN <<>>
  ELSE (IF Recognized(Head(chunks))
          THEN <<[mime_type |-> Head(chunks).mime, data |-> Head(chunks).data]>>
          ELSE <<>>) \o Forwarded(Tail(chunks))

\* the chunks of a list before its first malformed one
RECURSIVE UpToMalformed(_)
UpToMalformed(chunks) ==
  IF chunks = <<>> \/ Malformed(Head(chunks)) THEN <<>>
  ELSE <<Head(chunks)>> \o UpToMalformed(Tail(chunks))

IsPrefix(a, b) == Len(a) <= Len(b) /\ a = SubSeq(b, 1, Len(a))

\* message i of the history has been handled to its end
ClientHandled(i) == i < Len(cMsgs) \/ cpc = "recv"

RECURSIVE AllSent(_)
AllSent(msgs) ==
  IF msgs = <<>> THEN <<>> ELSE Head(msgs).sent \o AllSent(Tail(msgs))

\* C4: a client message that is not valid JSON or has no realtime_input
\* forwards nothing and never ends client_to_gemini_loop, which ends only
\* when the client closes; every well-formed realtime_input message, also one
\* that follows such a message, has its recognized chunks forwarded in order
\* once it is handled, provided the remote session still accepts input.
C4_BadMessageDropped ==
  /\ cEnd \in {"", "closed"}
  /\ cpc = "done" => ws = "closed"
  /\ \A i \in DOMAIN cMsgs :
       /\ NotJsonOrNoInput(cMsgs[i].msg) => cMsgs[i].sent = <<>>
       /\ (ValidInput(cMsgs[i].msg) /\ ClientHandled(i) /\ remote = "open")
            => cMsgs[i].sent = Forwarded(cMsgs[i].msg.chunks)

\* a message that is not JSON, then a realtime_input message whose chunk
\* was forwarded
C4_Witness ==
  /\ Len(cMsgs) = 2 /\ cpc = "recv" /\ ws = "open"
  /\ cMsgs[1].msg.json = "invalid"
  /\ ValidInput(cMsgs[2].msg)
  /\ cMsgs[2].sent = <<[mime_type |-> "audio/pcm", data |-> "AAA="]>>
  /\ remoteIn = cMsgs[2].sent

\* C5 (as stated): the sends the session observes are exactly the recognized
\* chunks, in arrival order, of every realtime_input message handled.
C5_AllRecognizedForwarded ==
  \A i \in DOMAIN cMsgs :
    (cMsgs[i].msg.ri = "chunks" /\ ClientHandled(i) /\ remote = "open")
      => cMsgs[i].sent = Forwarded(cMsgs[i].msg.chunks)

\* C5 (amended): only chunks with a recognized mime type are sent, as
\* {mime_type, data} unmodified and in arrival order within and across
\* messages; within a message forwarding stops at the first malformed chunk
\* (not an object, or a recognized type without data) or at the first send
\* the session refuses: the chunks after it are not forwarded.
C5_RecognizedForwardedUpToMalformed ==
  /\ remoteIn = AllSent(cMsgs)
  /\ \A n \in DOMAIN remoteIn : remoteIn[n].mime_type \in RecognizedMimes
  /\ \A i \in DOMAIN cMsgs :
       LET m == cMsgs[i].msg
           due == IF handle_client_message(m) = "iterate"
                    THEN Forwarded(UpToMalformed(m.chunks)) ELSE <<>>
       IN /\ IsPrefix(cMsgs[i].sent, due)
          /\ (ClientHandled(i) /\ remote = "open") => cMsgs[i].sent = due

\* a message whose unrecognized chunk was skipped and whose image was
\* forwarded, then a message whose audio chunk follows a malformed chunk
C5_Witness ==
  /\ Len(cMsgs) = 2 /\ cpc = "recv" /\ remote = "open"
  /\ cMsgs[1].msg.chunks = <<OtherChunk, JpegChunk>>
  /\ cMsgs[1].sent = <<[mime_type |-> "image/jpeg", data |-> "/9j/"]>>
  /\ cMsgs[2].msg.chunks = <<NoDataChunk, PcmChunk>>
  /\ cMsgs[2].sent = <<>>
  /\ remoteIn = cMsgs[1].sent

\* a turn-complete whose handling reached line 102 (or found the buffer
\* empty at line 99)
TurnHandled(t) ==
  \/ ~t.called
  \/ ~t.text.exc /\ ~Truthy(t.text)
  \/ \E i \in DOMAIN clientLog :
       clientLog[i].src = "transcript" /\ clientLog[i].ev = t.ev

\* the number of the last event before event n whose turn-complete was
\* handled, 0 if there is none
HandledTurnBefore(n) ==
  LET S == {0} \cup {turns[j].ev : j \in {j \in DOMAIN turns :
                       TurnHandled(turns[j]) /\ turns[j].ev < n}}
  IN CHOOSE x \in S : \A y \in S : y <= x

RECURSIVE Payloads(_)
Payloads(log) ==
  IF log = <<>> THEN <<>> ELSE Head(log).raw \o Payloads(Tail(log))

IsAudioIn(e, lo, hi) == e.k = "audio" /\ lo < e.ev /\ e.ev <= hi

\* the payloads of the inline-data parts handled in events lo+1 .. hi, in
\* order of handling
AudioBetween(lo, hi) ==
  Payloads(SelectSeq(clientLog, LAMBDA e : IsAudioIn(e, lo, hi)))

\* C6: audio_data is the concatenation, in order, of the payloads of the
\* inline-data parts handled since the last handled turn-complete (or since
\* the start); so it was at every turn-complete; and when the loop waits for
\* the next event after a turn-complete the buffer is empty, whatever the
\* transcription gave.
C6_TurnAudioIsConcatenation ==
  /\ turnAudio = AudioBetween(HandledTurnBefore(MaxInputs + 1), MaxInputs)
  /\ \A j \in DOMAIN turns :
       turns[j].audio =
         AudioBetween(HandledTurnBefore(turns[j].ev), turns[j].ev)
  /\ \A j \in DOMAIN turns :
       (gpc = "recv" /\ gEvNo = turns[j].ev) => turnAudio = <<>>

\* two audio parts were accumulated in order, the speech-to-text call failed,
\* the buffer is empty
C6_Witness ==
  /\ gpc = "recv" /\ turnAudio = <<>>
  /\ \E j \in DOMAIN turns :
       /\ turns[j].audio = <<1, 2, 255>> /\ turns[j].ev = gEvNo
       /\ turns[j].called /\ turns[j].codecOk /\ turns[j].text = None

\* C7: at a turn-complete with no audio part since the last handled
\* turn-complete, transcribe_audio is not called and no transcript is sent.
C7_NoTranscriptionOfEmptyTurn ==
  \A j \in DOMAIN turns :
    AudioBetween(HandledTurnBefore(turns[j].ev), turns[j].ev) = <<>> =>
      /\ ~turns[j].called
      /\ ~(gPending.src = "transcript" /\ gEvNo = turns[j].ev)
      /\ \A i \in DOMAIN clientLog :
           ~(clientLog[i].src = "transcript" /\ clientLog[i].ev = turns[j].ev)

\* a turn of one text part was completed: the text was forwarded, nothing
\* was transcribed
C7_Witness ==
  /\ gpc = "recv" /\ Len(turns) = 1 /\ ~turns[1].called
  /\ turns[1].audio = <<>>
  /\ Len(clientLog) = 1 /\ clientLog[1].src = "part"
  /\ clientLog[1].ev = turns[1].ev

\* the position of a message: its event, then its part; a transcript comes
\* after the parts of its event
Before(a, b) == a.ev < b.ev \/ (a.ev = b.ev /\ a.pi < b.pi)

\* a part for which a message is due, and that message
Sendable(part) == part.text # "" \/ (part.inl = "blob" /\ part.data # <<>>)
IsMessageOf(e, part) ==
  IF part.text # "" THEN e.k = "text" /\ e.v = part.text
  ELSE e.k = "audio" /\ e.v = b64encode(part.data)

\* C8: the messages handed to websocket.send are in the order of the events
\* and, within an event, of its parts, each the text or the base64 audio of
\* its part, none skipped; a transcript is the text transcribe_audio
\* returned for that event's turn-complete, after every message of the parts
\* of that event and before any message of a later event, at most one per
\* event.  (The client receives those of them whose send succeeded.)
C8_MessagesInPartOrder ==
  /\ \A i, j \in DOMAIN clientLog :
       i < j => Before(clientLog[i], clientLog[j])
  /\ \A i \in DOMAIN clientLog :
       LET e == clientLog[i] IN
         /\ (e.src = "part" /\ gpc \in {"part", "send", "turn"}
               /\ e.ev = gEvNo)
              => /\ e.pi \in DOMAIN gEv.parts
                 /\ Sendable(gEv.parts[e.pi])
                 /\ IsMessageOf(e, gEv.parts[e.pi])
         /\ e.src = "transcript"
              => /\ e.k = "text"
                 /\ \E j \in DOMAIN turns :
                      /\ turns[j].ev = e.ev /\ Truthy(turns[j].text)
                      /\ e.v = turns[j].text.s
  /\ gpc \in {"part", "send", "turn"} =>
       \A n \in DOMAIN gEv.parts :
         (n < gPi /\ Sendable(gEv.parts[n]))
           => \E i \in DOMAIN clientLog :
                clientLog[i].ev = gEvNo /\ clientLog[i].pi = n

\* the audio of a turn, its transcript, then the text of the next event, all
\* delivered
C8_Witness ==
  /\ Len(clientLog) = 3
  /\ \A i \in 1..3 : clientLog[i].ok
  /\ clientLog[1].k = "audio" /\ clientLog[1].v = "AQI="
  /\ clientLog[2].k = "text" /\ clientLog[2].v = "hi there"
  /\ clientLog[2].src = "transcript" /\ clientLog[2].ev = clientLog[1].ev
  /\ clientLog[3].v = "hello" /\ clientLog[3].ev > clientLog[2].ev

\* C9: a websocket.send that raises never ends gemini_to_client_loop, which
\* ends only with the remote stream or on a part whose inline_data is None;
\* the loop goes on with the next part and event; after a failed send of an
\* audio message the payload is at the end of audio_data.
C9_SendFailureSwallowed ==
  /\ gEnd \in {"", "closed", "AttributeError"}
  /\ \A i \in DOMAIN clientLog :
       LET e == clientLog[i] IN
         (~e.ok /\ e.k = "audio" /\ i = Len(clientLog)
            /\ HandledTurnBefore(MaxInputs + 1) < e.ev)
           => /\ Len(e.raw) <= Len(turnAudio)
              /\ e.raw = SubSeq(turnAudio, Len(turnAudio) - Len(e.raw) + 1,
                                Len(turnAudio))

\* the client has gone; the audio of one event and then of the next were
\* handled, both sends failed, both payloads are in the buffer
C9_Witness ==
  /\ Len(clientLog) = 2 /\ gpc = "recv"
  /\ ~clientLog[1].ok /\ clientLog[1].k = "audio"
  /\ ~clientLog[2].ok /\ clientLog[2].ev > clientLog[1].ev
  /\ turnAudio = <<1, 2, 255>>

\* C10: a failure in transcribe_audio, of the conversion or of the
\* speech-to-text call, never ends gemini_to_client_loop: no exception leaves
\* transcribe_audio, and the loop does not end on an event whose
\* turn-complete was handled unless the remote stream ends.
C10_TranscriberFailureSwallowed ==
  /\ gEnd # "TranscribeError"
  /\ \A j \in DOMAIN turns :
       /\ ~turns[j].text.exc
       /\ (gpc = "done" /\ gEvNo = turns[j].ev) => gEnd = "closed"

\* the speech-to-text call failed at the first turn-complete and the text of
\* the next event was forwarded
C10_Witness ==
  /\ Len(turns) = 1 /\ turns[1].called /\ turns[1].codecOk
  /\ turns[1].text = None
  /\ \E i \in DOMAIN clientLog :
       clientLog[i].ev > turns[1].ev /\ clientLog[i].ok

\* C11: when the handler has returned, on any path, neither forwarding task
\* is running and no cancellation is left undelivered; while the finally
\* clause awaits a task, that task has ended or has been sent cancel(); a
\* task ends cancelled only when the handler itself was cancelled, and its
\* CancelledError is not reported as a session error.
C11_TasksCancelledAndAwaited ==
  /\ hpc = "returned" =>
       /\ ~Running(gpc) /\ ~Running(cpc)
       /\ ~gCancelReq /\ ~cCancelReq
  /\ (hpc = "await_send" /\ Running(gpc)) => gCancelReq
  /\ (hpc = "await_recv" /\ Running(cpc)) => cCancelReq
  /\ hpc = "await_recv" => ~Running(gpc)
  /\ (gpc = "cancelled" \/ cpc = "cancelled") =>
       hcancel /\ hlog = "Connected to Gemini API"

\* the handler was cancelled in the join while both loops were at work, and
\* has returned with both tasks cancelled
C11_Witness ==
  /\ hpc = "returned" /\ hcancel
  /\ gpc = "cancelled" /\ cpc = "cancelled"
  /\ clientLog # <<>> /\ remoteIn # <<>>

\* C12: connect is called only for an initial message that parsed (a JSON
\* object whose setup, if any, is an object); once the handler has logged a
\* failure of the parse or of connect it has returned and stays so: no
\* session is open, no loop was started, nothing was received by a loop,
\* nothing was sent to a session or to the client; a session is opened only
\* by a connect that succeeded.
C12_FailedStartupAborts ==
  /\ hpc = "connect" =>
       hInit.json = "object" /\ hInit.setup \in {"absent", "dict"}
  /\ hlog \notin {"", "Received initial message", "Connected to Gemini API"}
       => /\ hpc = "returned"
          /\ opens = 0 /\ closes = 0
          /\ cpc = "none" /\ gpc = "none"
          /\ nIn = 0 /\ cMsgs = <<>> /\ remoteIn = <<>>
          /\ clientLog = <<>> /\ gPending = NoPending
  /\ opens = 1 => hlog = "Connected to Gemini API"

\* connect has raised for a valid initial message; the handler has returned
C12_Witness ==
  /\ hpc = "returned" /\ ~hcancel
  /\ hlog = "Session error: ConnectError"
  /\ opens = 0 /\ cpc = "none" /\ gpc = "none" /\ ws = "open"

\* C13: the configuration passed to connect is {"setup": merged}, where
\* merged has the top-level keys of the defaults and of the client's setup,
\* with the client's whole value for each key the client gave and the default
\* value for the others; without a setup it is the defaults.
C13_ShallowMerge ==
  hpc = "connect" =>
    LET given == IF hInit.setup = "dict" THEN hInit.overrides ELSE EmptyMap
        merged == hConfig.setup
    IN /\ DOMAIN hConfig = {"setup"}
       /\ DOMAIN merged = DOMAIN default_config \cup DOMAIN given
       /\ \A k \in DOMAIN given : merged[k] = given[k]
       /\ \A k \in DOMAIN default_config \ DOMAIN given :
            merged[k] = default_config[k]
       /\ hInit.setup = "absent" => merged = default_config

\* a setup that gives only the temperature of generation_config and a new
\* key: generation_config is replaced whole, safety_settings is the default
C13_Witness ==
  /\ hpc = "connect"
  /\ DOMAIN hInit.overrides = {"generation_config", "tools"}
  /\ hConfig.setup.generation_config = [temperature |-> "0.2"]
  /\ hConfig.setup.tools = [google_search |-> "on"]
  /\ hConfig.setup.safety_settings = default_config.safety_settings

\* C14 (as stated): a part with neither non-empty text nor non-empty inline
\* data, its inline data being absent included, gets no message and adds
\* nothing to the buffer, and does not end the loop: the parts after it and
\* the later events are handled.
C14_EmptyPartSkipped ==
  /\ gEnd \in {"", "closed"}
  /\ gpc \in {"part", "send", "turn"} =>
       \A i \in DOMAIN clientLog :
         (clientLog[i].src = "part" /\ clientLog[i].ev = gEvNo)
           => /\ Sendable(gEv.parts[clientLog[i].pi])
              /\ clientLog[i].k = "audio" => clientLog[i].raw # <<>>

\* a chunk with a recognized mime_type and no data
LacksData(chunk) ==
  chunk.dict /\ chunk.mime \in RecognizedMimes /\ ~chunk.hasData

\* C15 (as stated): of a realtime_input message with a chunk that lacks a
\* required field no chunk reaches the session, and the loop goes on with
\* the next message.
C15_MalformedMessageDropped ==
  /\ cEnd \in {"", "closed"}
  /\ \A i \in DOMAIN cMsgs :
       LET m == cMsgs[i].msg IN
         (m.json = "object" /\ m.ri = "chunks"
            /\ \E n \in DOMAIN m.chunks : LacksData(m.chunks[n]))
           => cMsgs[i].sent = <<>>

\* C16 (as stated): the transcription call is a suspension point: the step
\* in which gemini_to_client_loop calls transcribe_audio leaves the task
\* suspended in the call, so that the other task can run before the call
\* returns.
C16_TranscriptionSuspends ==
  [][(Len(turns') > Len(turns) /\ turns'[Len(turns')].called)
        => gpc' = "transcribe"]_vars

\* the turn-complete records of event n, and the messages of its parts
TurnsOf(n) == {j \in DOMAIN turns : turns[j].ev = n}
PartMessagesOf(n) ==
  {i \in DOMAIN clientLog : clientLog[i].ev = n /\ clientLog[i].src = "part"}

\* C17: turn-complete handling runs only for an event with the flag, once,
\* and after every part of the event's model-turn has been handled: each
\* part with text or audio has its message, and the buffer given to the
\* transcription ends with the audio of this event; parts are handled only
\* for an event with a model-turn, before any turn-complete handling of it;
\* the buffer is empty when the event is done.
C17_ModelTurnThenTurnComplete ==
  /\ gpc = "turn" =>
       /\ gEv.tc /\ TurnsOf(gEvNo) = {}
       /\ gPi = Len(gEv.parts) + 1
       /\ \A n \in DOMAIN gEv.parts :
            Sendable(gEv.parts[n])
              => \E i \in PartMessagesOf(gEvNo) : clientLog[i].pi = n
       /\ LET own == AudioBetween(gEvNo - 1, gEvNo) IN
            /\ Len(own) <= Len(turnAudio)
            /\ own = SubSeq(turnAudio, Len(turnAudio) - Len(own) + 1,
                            Len(turnAudio))
  /\ (gpc = "part" \/ (gpc = "send" /\ gPending.src = "part")) =>
       gEv.mt /\ TurnsOf(gEvNo) = {}
  /\ (gpc = "send" /\ gPending.src = "transcript") =>
       gEv.tc /\ turns # <<>> /\ TurnsOf(gEvNo) = {Len(turns)}
  /\ (gpc \in {"part", "send", "turn"} /\ ~gEv.mt) =>
       PartMessagesOf(gEvNo) = {}
  /\ \A j \in DOMAIN turns :
       /\ LET own == AudioBetween(turns[j].ev - 1, turns[j].ev) IN
            /\ Len(own) <= Len(turns[j].audio)
            /\ own = SubSeq(turns[j].audio,
                            Len(turns[j].audio) - Len(own) + 1,
                            Len(turns[j].audio))
       /\ (gpc = "recv" /\ gEvNo = turns[j].ev) => turnAudio = <<>>

\* one event with a text part, an audio part and the flag: both messages,
\* then the transcription of this event's audio, then an empty buffer
C17_Witness ==
  /\ gpc = "recv" /\ turnAudio = <<>>
  /\ Len(turns) = 1 /\ turns[1].ev = gEvNo /\ turns[1].audio = <<1, 2>>
  /\ Len(clientLog) = 3
  /\ \A i \in 1..3 : clientLog[i].ev = gEvNo
  /\ clientLog[1].v = "hello" /\ clientLog[2].k = "audio"
  /\ clientLog[3].src = "transcript"

\* C18: a step changes audio_data only if it is the return of the send of an
\* audio part, which appends that part's payload (line 94), or the reset at
\* the end of turn-complete handling (line 102); every step in which the
\* handler or client_to_gemini_loop moves, receives or sends leaves it as it
\* is.
C18_OnlyRemoteLoopTouchesBuffer ==
  [][/\ turnAudio' # turnAudio =>
          \/ /\ gpc = "send" /\ gPending.src = "part" /\ gPending.k = "audio"
             /\ turnAudio' = turnAudio \o gEv.parts[gPi].data
          \/ /\ gpc = "send" /\ gPending.src = "transcript"
             /\ turnAudio' = <<>>
          \/ /\ gpc = "turn"
             /\ turnAudio' = <<>>
     /\ (hpc' # hpc \/ cpc' # cpc \/ cCi' # cCi \/ cMsgs' # cMsgs
           \/ remoteIn' # remoteIn \/ ws' # ws)
          => turnAudio' = turnAudio]_vars

\* audio of the first event is in the buffer; the client loop has since
\* received a message and forwarded its chunk; the buffer is as it was
C18_Witness ==
  /\ turnAudio = <<1, 2>> /\ gpc = "recv"
  /\ Len(clientLog) = 1 /\ clientLog[1].ev = 1
  /\ Len(cMsgs) = 1 /\ cMsgs[1].sent # <<>> /\ cpc = "recv"
  /\ remoteIn = cMsgs[1].sent

\* a step in which client_to_gemini_loop, or gemini_to_client_loop, goes on
\* from its await other than by being cancelled
ClientLoopMoves ==
  /\ Running(cpc) /\ cpc' # "cancelled"
  /\ <<cpc, cCi, cMsgs, remoteIn>>' # <<cpc, cCi, cMsgs, remoteIn>>
GeminiLoopMoves ==
  /\ Running(gpc) /\ gpc' # "cancelled"
  /\ <<gpc, gPi, gEvNo, clientLog, turns>>'
       # <<gpc, gPi, gEvNo, clientLog, turns>>

\* C19: the loops take steps, and so call session.send and receive the next
\* event, only while the session is open: after connect has returned it and
\* before the handler has left the `async with` block; a task that is
\* unfinished when the block is left has a cancellation pending and takes no
\* step but its cancellation.
C19_SessionUsedOnlyWhileOpen ==
  [][/\ (ClientLoopMoves \/ GeminiLoopMoves) =>
          hpc = "gather" /\ opens = 1 /\ closes = 0
     /\ remoteIn' # remoteIn => opens = 1 /\ closes = 0
     /\ closes' = 1 =>
          /\ Running(cpc') => cCancelReq'
          /\ Running(gpc') => gCancelReq']_vars

\* the session was used in both directions; the handler was cancelled and
\* has left the session scope while gemini_to_client_loop, cancelled by
\* gather, has not ended yet
C19_Witness ==
  /\ hpc = "await_send" /\ opens = 1 /\ closes = 1
  /\ Running(gpc) /\ gCancelReq
  /\ remoteIn # <<>> /\ clientLog # <<>>

\* C20: the handshake takes the first message of the connection and sends
\* nothing for it, whatever it holds; the messages client_to_gemini_loop
\* receives are the second and later ones, and every send the session
\* observes was made while one of them was handled.
C20_FirstMessageNotForwarded ==
  /\ hpc \in {"recv_init", "connect"} =>
       remoteIn = <<>> /\ cMsgs = <<>> /\ wsRecvd <= 1
  /\ hpc = "connect" => wsRecvd = 1
  /\ \A i \in DOMAIN cMsgs : cMsgs[i].no = i + 1
  /\ remoteIn = AllSent(cMsgs)

\* the first message held a realtime_input with two recognized chunks: the
\* handshake took it, connect is being called, nothing was forwarded
C20_Witness ==
  /\ hpc = "connect" /\ wsRecvd = 1
  /\ hInit.chunks = <<PcmChunk, JpegChunk>>
  /\ remoteIn = <<>> /\ opens = 0

====
